---- MODULE Spec2Model ----
(***************************************************************************)
(* Model of pypowsybl/__init__.py: the package initializer (the module     *)
(* body, executed statement by statement when the package is loaded) and   *)
(* the four functions it defines, each a delegation to the native binding  *)
(* module _pypowsybl.  The native module is not part of the source at      *)
(* hand; it is modelled from its documented contract.                      *)
(*                                                                         *)
(* Encodings.  A Python string is a sequence of one-character strings; a   *)
(* file system path is a sequence of path components; an optional value    *)
(* (None or v) is the sequence << >> or <<v>>; an argument list is the     *)
(* sequence of the positional arguments given at the call site.            *)
(***************************************************************************)
EXTENDS Naturals, Sequences, FiniteSets

VARIABLES
    pc,          \* index in ModuleBody of the next statement of the load
    failed,      \* the load raised: the package is not available
    namespace,   \* names bound in the package's namespace so far
    nativeFile,  \* file the _pypowsybl module was loaded from
    native,      \* process-wide state held by the native module
    stdout,      \* everything written to standard output
    loadLog,     \* native calls made by the module body
    lastArgs,    \* per setter: whether it was called, and its last arguments
    lastCall,    \* the most recent call of one of the four functions
    prevCall     \* the call before that one

vars == <<pc, failed, namespace, nativeFile, native, stdout, loadLog,
          lastArgs, lastCall, prevCall>>

----------------------------------------------------------------------------
(* Bounds and input sets *)

\* print_version is taken only while stdout is shorter than this
MaxStdout == 4

\* candidate locations of the native extension module
InstallFiles ==
    { <<"site-packages", "pypowsybl", "_pypowsybl.so">>,
      <<"opt", "venv", "lib", "pypowsybl", "_pypowsybl.pyd">>,
      <<"_pypowsybl.so">> }

\* candidate version reports of the native module
VersionTables == { << >>, <<"v", "1">> }

\* argument lists of the setters: no argument, True, False
BoolArgs == { << >>, <<TRUE>>, <<FALSE>> }

\* outcome of a native call: it returns, it raises before taking effect, or
\* it raises after taking effect
NoFault == { "none" }
Faults == { "none", "before", "after" }

FunctionNames ==
    { "set_debug_mode", "set_config_read", "is_config_read", "print_version" }

Submodules == { "network", "loadflow", "security", "sensitivity" }

----------------------------------------------------------------------------
(* The native module _pypowsybl *)

NativeApply(n, fn, args) ==
    CASE fn = "set_debug_mode"        -> [n EXCEPT !.debug_mode = args[1]]
      [] fn = "set_config_read"       -> [n EXCEPT !.config_read = args[1]]
      [] fn = "set_java_library_path" -> [n EXCEPT !.java_library_path = <<args[1]>>]
      [] OTHER                        -> n

NativeValue(n, fn) ==
    CASE fn = "is_config_read"    -> <<n.config_read>>
      [] fn = "get_version_table" -> <<n.version_table>>
      [] OTHER                    -> << >>

\* The interpreter state a function body runs in: the native state, the native
\* calls made so far, the text written so far, the value of the last native
\* call, the returned value, whether an exception is propagating, and the
\* outcome the next native call will have.
World(n, fault) ==
    [native |-> n, log |-> << >>, out |-> << >>, val |-> << >>,
     ret |-> << >>, raised |-> FALSE, fault |-> fault]

\* _pypowsybl.<fn>(*args): skipped when an exception is already propagating
Invoke(w, fn, args) ==
    IF w.raised THEN w
    ELSE [w EXCEPT
            !.native = IF w.fault = "before" THEN @ ELSE NativeApply(@, fn, args),
            !.log    = Append(@, [fn |-> fn, args |-> args]),
            !.val    = IF w.fault = "none" THEN NativeValue(w.native, fn) ELSE << >>,
            !.raised = (w.fault # "none"),
            !.fault  = "none"]

\* print(s): writes s and a line end
print(w, s) ==
    IF w.raised THEN w ELSE [w EXCEPT !.out = @ \o s \o <<"\n">>]

\* return v (None is << >>)
Return(w, v) ==
    IF w.raised THEN w ELSE [w EXCEPT !.ret = v]

----------------------------------------------------------------------------
(* pypowsybl/__init__.py: the four functions *)

\* variant: also forwards the flag to set_config_read
set_debug_mode_and_config(w, args) ==
    LET debug == IF args = << >> THEN TRUE ELSE args[1]
    IN  Return(Invoke(Invoke(w, "set_debug_mode", <<debug>>),
                      "set_config_read", <<debug>>), << >>)

\* variant: forwards the flag to set_config_read instead
set_debug_mode_as_config(w, args) ==
    LET debug == IF args = << >> THEN TRUE ELSE args[1]
    IN  Return(Invoke(w, "set_config_read", <<debug>>), << >>)

set_debug_mode(w, args) ==
    LET debug == IF args = << >> THEN TRUE ELSE args[1]
    IN  Return(Invoke(w, "set_debug_mode", <<debug>>), << >>)

\* variant: forwards the negated flag
set_config_read_negated(w, args) ==
    LET read_config == IF args = << >> THEN TRUE ELSE args[1]
    IN  Return(Invoke(w, "set_config_read", <<~read_config>>), << >>)

\* variant: the parameter defaults to False
set_config_read_default_false(w, args) ==
    LET read_config == IF args = << >> THEN FALSE ELSE args[1]
    IN  Return(Invoke(w, "set_config_read", <<read_config>>), << >>)

\* variant: True flips the flag held by the native module, False keeps it
set_config_read_toggle(w, args) ==
    LET read_config == IF args = << >> THEN TRUE ELSE args[1]
    IN  Return(Invoke(w, "set_config_read",
                      <<(w.native.config_read # read_config)>>), << >>)

set_config_read(w, args) ==
    LET read_config == IF args = << >> THEN TRUE ELSE args[1]
    IN  Return(Invoke(w, "set_config_read", <<read_config>>), << >>)

is_config_read(w) ==
    LET r == Invoke(w, "is_config_read", << >>)
    IN  Return(r, r.val)

\* variant: returns the table instead of printing it
print_version_returns(w) ==
    LET r == Invoke(w, "get_version_table", << >>)
    IN  Return(r, r.val)

\* variant: catches the error, asks again and prints what it gets
print_version_retry(w) ==
    LET r == Invoke(w, "get_version_table", << >>)
        q == IF r.raised
             THEN Invoke([r EXCEPT !.raised = FALSE], "get_version_table", << >>)
             ELSE r
    IN  Return(print(q, q.val[1]), << >>)

print_version(w) ==
    LET r == Invoke(w, "get_version_table", << >>)
    IN  Return(IF r.raised THEN r ELSE print(r, r.val[1]), << >>)

----------------------------------------------------------------------------
(* pypowsybl/__init__.py: the module body *)

\* os.path.dirname of a path: the path without its last component
dirname(path) ==
    IF path = << >> THEN << >> ELSE SubSeq(path, 1, Len(path) - 1)

\* variant: the module's file itself, not its directory
library_path_is_file(file) == file

\* the argument of the set_java_library_path call
library_path(file) == dirname(file)

\* variant: the library path is registered last, after the functions
ModuleBody_path_last ==
    << [op |-> "import", names |-> {"_os"}],
       [op |-> "import", names |-> {"_inspect"}],
       [op |-> "import", names |-> {"_pypowsybl"}],
       [op |-> "import", names |-> {"PyPowsyblError"}],
       [op |-> "import", names |-> Submodules],
       [op |-> "assign", names |-> {"__version__"}],
       [op |-> "assign", names |-> {"__all__"}],
       [op |-> "def", names |-> {"set_debug_mode"}],
       [op |-> "def", names |-> {"set_config_read"}],
       [op |-> "def", names |-> {"is_config_read"}],
       [op |-> "def", names |-> {"print_version"}],
       [op |-> "set_java_library_path", names |-> {}] >>

ModuleBody ==
    << [op |-> "import", names |-> {"_os"}],
       [op |-> "import", names |-> {"_inspect"}],
       [op |-> "import", names |-> {"_pypowsybl"}],
       [op |-> "import", names |-> {"PyPowsyblError"}],
       [op |-> "import", names |-> Submodules],
       [op |-> "assign", names |-> {"__version__"}],
       [op |-> "set_java_library_path", names |-> {}],
       [op |-> "assign", names |-> {"__all__"}],
       [op |-> "def", names |-> {"set_debug_mode"}],
       [op |-> "def", names |-> {"set_config_read"}],
       [op |-> "def", names |-> {"is_config_read"}],
       [op |-> "def", names |-> {"print_version"}] >>

Loading == ~failed /\ pc <= Len(ModuleBody)
Loaded == ~failed /\ pc = Len(ModuleBody) + 1

NoCall(n) ==
    [fn |-> "none", args |-> << >>, fault |-> "none", before |-> n,
     log |-> << >>, out |-> << >>, ret |-> << >>, raised |-> FALSE]

NeverCalled == [called |-> FALSE, args |-> << >>]

Init ==
    /\ pc = 1
    /\ failed = FALSE
    /\ namespace = {}
    /\ nativeFile \in InstallFiles
    /\ \E d \in BOOLEAN, c \in BOOLEAN, t \in VersionTables :
          native = [debug_mode |-> d, config_read |-> c,
                    java_library_path |-> << >>, version_table |-> t]
    /\ stdout = << >>
    /\ loadLog = << >>
    /\ lastArgs = [set_debug_mode |-> NeverCalled, set_config_read |-> NeverCalled]
    /\ lastCall = NoCall(native)
    /\ prevCall = NoCall(native)

\* import ...: binds the imported names; a failing import ends the load
Import(F) ==
    /\ Loading
    /\ ModuleBody[pc].op = "import"
    /\ \E f \in F :
          IF f = "none"
          THEN /\ namespace' = namespace \cup ModuleBody[pc].names
               /\ pc' = pc + 1
               /\ failed' = failed
          ELSE /\ failed' = TRUE
               /\ UNCHANGED <<namespace, pc>>
    /\ UNCHANGED <<nativeFile, native, stdout, loadLog, lastArgs, lastCall, prevCall>>

\* __version__ = ..., __all__ = [...]
Assign ==
    /\ Loading
    /\ ModuleBody[pc].op = "assign"
    /\ namespace' = namespace \cup ModuleBody[pc].names
    /\ pc' = pc + 1
    /\ UNCHANGED <<failed, nativeFile, native, stdout, loadLog, lastArgs,
                   lastCall, prevCall>>

\* _pypowsybl.set_java_library_path(_os.path.dirname(_inspect.getfile(_pypowsybl)))
RegisterLibraryPath(F) ==
    /\ Loading
    /\ ModuleBody[pc].op = "set_java_library_path"
    /\ \E f \in F :
          LET w == Invoke(World(native, f), "set_java_library_path",
                          <<library_path(nativeFile)>>)
          IN  /\ native' = w.native
              /\ loadLog' = loadLog \o w.log
              /\ failed' = w.raised
              /\ pc' = IF w.raised THEN pc ELSE pc + 1
    /\ UNCHANGED <<namespace, nativeFile, stdout, lastArgs, lastCall, prevCall>>

\* def <name>(...): binds the function's name
Def ==
    /\ Loading
    /\ ModuleBody[pc].op = "def"
    /\ namespace' = namespace \cup ModuleBody[pc].names
    /\ pc' = pc + 1
    /\ UNCHANGED <<failed, nativeFile, native, stdout, loadLog, lastArgs,
                   lastCall, prevCall>>

\* the effect of a finished call of function fn with arguments args, which
\* ran from World(native, fault) to w
Finish(fn, args, fault, w) ==
    /\ native' = w.native
    /\ stdout' = stdout \o w.out
    /\ lastCall' = [fn |-> fn, args |-> args, fault |-> fault, before |-> native,
                    log |-> w.log, out |-> w.out, ret |-> w.ret,
                    raised |-> w.raised]
    /\ prevCall' = lastCall
    /\ UNCHANGED <<pc, failed, namespace, nativeFile, loadLog>>

Call_set_debug_mode(F) ==
    /\ Loaded
    /\ "set_debug_mode" \in namespace
    /\ \E args \in BoolArgs, f \in F :
          /\ Finish("set_debug_mode", args, f, set_debug_mode(World(native, f), args))
          /\ lastArgs' = [lastArgs EXCEPT
                            !.set_debug_mode = [called |-> TRUE, args |-> args]]

Call_set_config_read(F) ==
    /\ Loaded
    /\ "set_config_read" \in namespace
    /\ \E args \in BoolArgs, f \in F :
          /\ Finish("set_config_read", args, f, set_config_read(World(native, f), args))
          /\ lastArgs' = [lastArgs EXCEPT
                            !.set_config_read = [called |-> TRUE, args |-> args]]

Call_is_config_read(F) ==
    /\ Loaded
    /\ "is_config_read" \in namespace
    /\ \E f \in F :
          Finish("is_config_read", << >>, f, is_config_read(World(native, f)))
    /\ UNCHANGED lastArgs

Call_print_version(F) ==
    /\ Loaded
    /\ "print_version" \in namespace
    /\ Len(stdout) < MaxStdout
    /\ \E f \in F :
          Finish("print_version", << >>, f, print_version(World(native, f)))
    /\ UNCHANGED lastArgs

Load(F) ==
    \/ Import(F)
    \/ Assign
    \/ RegisterLibraryPath(F)
    \/ Def

Calls(F) ==
    \/ Call_set_debug_mode(F)
    \/ Call_set_config_read(F)
    \/ Call_is_config_read(F)
    \/ Call_print_version(F)

\* the native module is correctly initialized: every native call returns
Next == Load(NoFault) \/ Calls(NoFault)

Spec == Init /\ [][Next]_vars

\* native calls and imports may raise
FaultNext == Load(Faults) \/ Calls(Faults)

FaultSpec == Init /\ [][FaultNext]_vars

----------------------------------------------------------------------------
(* Properties *)

\* dir is the directory that holds file
Contains(dir, file) ==
    /\ Len(file) = Len(dir) + 1
    /\ SubSeq(file, 1, Len(dir)) = dir

PathRegistered ==
    /\ \E i \in 1..Len(loadLog) : loadLog[i].fn = "set_java_library_path"
    /\ native.java_library_path # << >>

IsSuffix(t, s) ==
    /\ Len(t) <= Len(s)
    /\ SubSeq(s, Len(s) - Len(t) + 1, Len(s)) = t

\* C1: once set_config_read has been called with an explicit flag b, a call of
\* is_config_read returns normally and returns b, the flag of the most recent
\* set_config_read call, whatever calls were made in between.
ConfigReadReturnsLastSet ==
    \A b \in BOOLEAN :
        ( /\ lastCall.fn = "is_config_read"
          /\ lastArgs.set_config_read = [called |-> TRUE, args |-> <<b>>] )
        => (~lastCall.raised /\ lastCall.ret = <<b>>)

ConfigReadReturnsLastSet_Witness ==
    /\ lastCall.fn = "is_config_read"
    /\ prevCall.fn = "print_version"
    /\ lastArgs.set_config_read = [called |-> TRUE, args |-> <<FALSE>>]
    /\ lastArgs.set_debug_mode = [called |-> TRUE, args |-> <<TRUE>>]
    /\ lastCall.ret = <<FALSE>>

\* C2: set_debug_mode(b) makes exactly one native call, set_debug_mode(b),
\* and returns None; in every state the native debug flag is the flag of the
\* most recent set_debug_mode call.
DebugModeForwarded ==
    \A b \in BOOLEAN :
        /\ lastArgs.set_debug_mode = [called |-> TRUE, args |-> <<b>>]
              => native.debug_mode = b
        /\ (lastCall.fn = "set_debug_mode" /\ lastCall.args = <<b>>)
              => /\ lastCall.log = <<[fn |-> "set_debug_mode", args |-> <<b>>]>>
                 /\ lastCall.ret = << >>
                 /\ ~lastCall.raised

DebugModeForwarded_Witness ==
    /\ lastCall.fn = "is_config_read"
    /\ prevCall.fn = "set_config_read"
    /\ lastArgs.set_debug_mode = [called |-> TRUE, args |-> <<FALSE>>]
    /\ native.debug_mode = FALSE
    /\ native.config_read = TRUE

\* C3: once the package is loaded, the module body has made exactly one native
\* call, set_java_library_path with the directory that holds the _pypowsybl
\* file, and the native library path is that directory, also after any calls
\* of the four functions.
LibraryPathRegistered ==
    Loaded =>
        /\ Len(loadLog) = 1
        /\ loadLog[1].fn = "set_java_library_path"
        /\ Contains(loadLog[1].args[1], nativeFile)
        /\ native.java_library_path = loadLog[1].args

LibraryPathRegistered_Witness ==
    /\ Loaded
    /\ Len(nativeFile) = 5
    /\ native.java_library_path = << <<"opt", "venv", "lib", "pypowsybl">> >>
    /\ lastCall.fn = "set_config_read"
    /\ prevCall.fn = "print_version"

\* C4: with every native call returning, print_version makes exactly one
\* native call, get_version_table(), appends the returned string and a line
\* end to standard output (so what it writes is not empty), raises nothing
\* and returns None.
PrintVersionWritesTable ==
    lastCall.fn = "print_version" =>
        /\ lastCall.log = <<[fn |-> "get_version_table", args |-> << >>]>>
        /\ lastCall.out = native.version_table \o <<"\n">>
        /\ lastCall.out # << >>
        /\ IsSuffix(lastCall.out, stdout)
        /\ ~lastCall.raised
        /\ lastCall.ret = << >>

PrintVersionWritesTable_Witness ==
    /\ lastCall.fn = "print_version"
    /\ native.version_table = <<"v", "1">>
    /\ stdout = <<"v", "1", "\n", "v", "1", "\n">>

\* C5: a call of one of the four functions makes exactly one native call; it
\* raises exactly when that native call raises, and then it has written
\* nothing to standard output and returned no value.
FailureSurfaces ==
    lastCall.fn # "none" =>
        /\ Len(lastCall.log) = 1
        /\ lastCall.raised <=> (lastCall.fault # "none")
        /\ lastCall.raised => (lastCall.out = << >> /\ lastCall.ret = << >>)

FailureSurfaces_Witness ==
    /\ lastCall.fn = "print_version"
    /\ lastCall.raised
    /\ prevCall.fn = "print_version"
    /\ ~prevCall.raised
    /\ stdout = prevCall.out

\* C6: set_debug_mode() forwards True and leaves the debug flag set;
\* after set_config_read() is_config_read returns True.
DefaultsAreTrue ==
    /\ (lastCall.fn = "set_debug_mode" /\ lastCall.args = << >>)
          => /\ lastCall.log = <<[fn |-> "set_debug_mode", args |-> <<TRUE>>]>>
             /\ native.debug_mode = TRUE
    /\ ( /\ lastCall.fn = "is_config_read"
         /\ lastArgs.set_config_read = [called |-> TRUE, args |-> << >>] )
          => lastCall.ret = <<TRUE>>

DefaultsAreTrue_Witness ==
    /\ lastCall.fn = "is_config_read"
    /\ prevCall.fn = "set_config_read"
    /\ prevCall.args = << >>
    /\ prevCall.before.config_read = FALSE
    /\ lastCall.ret = <<TRUE>>

\* C7: a set_debug_mode call changes at most the debug flag of the native
\* state, a set_config_read call at most the config-read flag, and
\* is_config_read and print_version change nothing of it; so none of them
\* changes the library path.
FlagsIndependent ==
    [][ /\ lastCall'.fn = "set_debug_mode"
           => native' = [native EXCEPT !.debug_mode = native'.debug_mode]
        /\ lastCall'.fn = "set_config_read"
           => native' = [native EXCEPT !.config_read = native'.config_read]
        /\ lastCall'.fn \in {"is_config_read", "print_version"}
           => native' = native ]_vars

FlagsIndependent_Witness ==
    /\ lastCall.fn = "set_debug_mode"
    /\ native.debug_mode # lastCall.before.debug_mode
    /\ prevCall.fn = "set_config_read"
    /\ prevCall.before.config_read # native.config_read
    /\ native.java_library_path # << >>

\* C8: a function of the package is bound, and called, only after the library
\* path was registered, and the path is registered only after the four
\* submodules were imported; when set_java_library_path raises, the load has
\* failed, none of the four functions is bound and none is ever called.
LoadOrdering ==
    /\ (namespace \cap FunctionNames # {}) => PathRegistered
    /\ lastCall.fn # "none" => PathRegistered
    /\ loadLog # << >> => Submodules \subseteq namespace
    /\ ( /\ loadLog # << >>
         /\ pc <= Len(ModuleBody)
         /\ ModuleBody[pc].op = "set_java_library_path" ) => failed
    /\ failed => (namespace \cap FunctionNames = {} /\ lastCall.fn = "none")

LoadOrdering_Witness ==
    /\ failed
    /\ loadLog # << >>
    /\ native.java_library_path = << >>
    /\ Submodules \subseteq namespace

\* C9: two set_config_read calls in a row leave the native state that the
\* second call alone would have left, and so do two set_debug_mode calls; two
\* is_config_read calls in a row return the same value.
LastWriteWins ==
    /\ (lastCall.fn = "set_config_read" /\ prevCall.fn = "set_config_read")
          => native = set_config_read(World(prevCall.before, "none"),
                                      lastCall.args).native
    /\ (lastCall.fn = "set_debug_mode" /\ prevCall.fn = "set_debug_mode")
          => native = set_debug_mode(World(prevCall.before, "none"),
                                     lastCall.args).native
    /\ (lastCall.fn = "is_config_read" /\ prevCall.fn = "is_config_read")
          => lastCall.ret = prevCall.ret

LastWriteWins_Witness ==
    /\ lastCall.fn = "set_config_read"
    /\ prevCall.fn = "set_config_read"
    /\ prevCall.before.config_read = FALSE
    /\ prevCall.args = <<TRUE>>
    /\ lastCall.args = <<FALSE>>
    /\ native.config_read = FALSE

====
